---- MODULE Spec2Model ----
(***************************************************************************)
(* Model of ritalin_dose_plotter.py: the one-compartment oral              *)
(* pharmacokinetic routine concentration_profile, the Tmax -> ka solver    *)
(* estimate_ka, and the Streamlit form that drives them.                   *)
(*                                                                         *)
(* Numbers.  A float is a record [kind, num, den]: an exact rational       *)
(* num/den (kind "fin", den > 0, lowest terms), or one of the IEEE         *)
(* specials "inf", "ninf", "nan"; "none" is Python's None.  Times are in   *)
(* hours.  Rates (k, ka) are carried in units of ln 2 per hour, so that    *)
(* np.log(2) is the rate 1 and np.exp(-k * delta_t) is the exact power of  *)
(* two 2^(-k*delta_t); the input sets keep every exponent an integer.      *)
(***************************************************************************)
EXTENDS Integers, Sequences, FiniteSets

(* ----------------------------------------------------------------------- *)
(* Float arithmetic (numpy semantics: division by zero and invalid         *)
(* operations give inf / nan with a warning, not an exception)             *)
(* ----------------------------------------------------------------------- *)

Abs(x) == IF x < 0 THEN -x ELSE x

RECURSIVE GCD(_, _)
GCD(a, b) == IF b = 0 THEN a ELSE GCD(b, a % b)

(* n/d with d > 0, both divisible by g *)
Reduced(n, d, g) == [kind |-> "fin", num |-> n \div g, den |-> d \div g]

(* the rational n/d (d # 0) in lowest terms *)
Rat(n, d) ==
    IF d < 0 THEN Reduced(-n, -d, GCD(Abs(n), Abs(d)))
    ELSE Reduced(n, d, GCD(Abs(n), Abs(d)))

Num(i) == [kind |-> "fin", num |-> i, den |-> 1]
NaN    == [kind |-> "nan", num |-> 0, den |-> 1]
PosInf == [kind |-> "inf", num |-> 0, den |-> 1]
NegInf == [kind |-> "ninf", num |-> 0, den |-> 1]
None   == [kind |-> "none", num |-> 0, den |-> 1]

IsFin(x) == x.kind = "fin"
IsNaN(x) == x.kind = "nan"
Sign(x) ==
    CASE x.kind = "inf"  -> 1
      [] x.kind = "ninf" -> -1
      [] x.kind = "fin"  -> (IF x.num > 0 THEN 1 ELSE IF x.num < 0 THEN -1 ELSE 0)

Signed(s) == IF s > 0 THEN PosInf ELSE NegInf

Neg(x) ==
    CASE x.kind = "fin"  -> [x EXCEPT !.num = -x.num]
      [] x.kind = "inf"  -> NegInf
      [] x.kind = "ninf" -> PosInf
      [] x.kind = "nan"  -> NaN

(* x + y over the common denominator l *)
AddOver(x, y, l) == Rat(x.num * (l \div x.den) + y.num * (l \div y.den), l)

Add(x, y) ==
    IF IsNaN(x) \/ IsNaN(y) THEN NaN
    ELSE IF IsFin(x) /\ IsFin(y)
         THEN AddOver(x, y, (x.den \div GCD(x.den, y.den)) * y.den)
    ELSE IF IsFin(x) THEN y
    ELSE IF IsFin(y) THEN x
    ELSE IF x.kind = y.kind THEN x
    ELSE NaN

Sub(x, y) == Add(x, Neg(y))

(* x * y with the common factors g1 of x.num, y.den and g2 of y.num, x.den  *)
(* taken out first                                                         *)
MulOver(x, y, g1, g2) ==
    Rat((x.num \div g1) * (y.num \div g2), (x.den \div g2) * (y.den \div g1))

Mul(x, y) ==
    IF IsNaN(x) \/ IsNaN(y) THEN NaN
    ELSE IF IsFin(x) /\ IsFin(y)
         THEN MulOver(x, y, GCD(Abs(x.num), y.den), GCD(Abs(y.num), x.den))
    ELSE IF Sign(x) = 0 \/ Sign(y) = 0 THEN NaN
    ELSE Signed(Sign(x) * Sign(y))

Div(x, y) ==
    IF IsNaN(x) \/ IsNaN(y) THEN NaN
    ELSE IF IsFin(x) /\ IsFin(y) THEN
        IF y.num = 0
        THEN (IF x.num = 0 THEN NaN ELSE Signed(Sign(x)))
        ELSE Mul(x, Rat(y.den, y.num))
    ELSE IF IsFin(x) THEN Num(0)
    ELSE IF IsFin(y) THEN Signed(Sign(x) * (IF Sign(y) < 0 THEN -1 ELSE 1))
    ELSE NaN

(* x < y on floats; every comparison with nan is false *)
Less(x, y) ==
    IF IsNaN(x) \/ IsNaN(y) THEN FALSE
    ELSE IF IsFin(x) /\ IsFin(y) THEN Sub(x, y).num < 0
    ELSE IF x.kind = y.kind THEN FALSE
    ELSE x.kind = "ninf" \/ y.kind = "inf"

(* np.maximum: the larger operand, nan if either is nan *)
Maximum(x, y) ==
    IF IsNaN(x) \/ IsNaN(y) THEN NaN
    ELSE IF Less(x, y) THEN y ELSE x

RECURSIVE Pow2(_)
Pow2(e) == IF e = 0 THEN 1 ELSE 2 * Pow2(e - 1)

(* np.exp of an exponent given in units of ln 2: exp(x ln 2) = 2^x *)
Exp(x) ==
    CASE x.kind = "nan"  -> NaN
      [] x.kind = "inf"  -> PosInf
      [] x.kind = "ninf" -> Num(0)
      [] x.kind = "fin" /\ x.den = 1 ->
            IF x.num >= 0 THEN Num(Pow2(x.num)) ELSE Rat(1, Pow2(-x.num))

(* np.log(2) in the rate unit *)
Ln2 == Num(1)

(* ----------------------------------------------------------------------- *)
(* Pharmacokinetic core routine                                            *)
(* ----------------------------------------------------------------------- *)

Min(a, b) == IF a < b THEN a ELSE b

(* ceil of a finite rational, as an integer *)
Ceil(x) == -((-x.num) \div x.den)

(* faulty ArangeLen: the length rounded down *)
ArangeLenFloor(stop, step) ==
    IF Div(stop, step).num > 0 THEN Div(stop, step).num \div Div(stop, step).den ELSE 0

(* np.arange(0.0, stop, step): ceil(stop/step) points 0, step, 2*step, ...; *)
(* none when that length is not positive                                    *)
ArangeLen(stop, step) ==
    LET c == Ceil(Div(stop, step)) IN IF c > 0 THEN c ELSE 0

Arange(stop, step) ==
    [i \in 1..ArangeLen(stop, step) |-> Mul(Num(i - 1), step)]

(* faulty GridStop: np.arange(0.0, t_end, dt) *)
GridStopExclusive(tEnd, dT) == tEnd

(* the stop of the grid, t_end + dt *)
GridStop(tEnd, dT) == Add(tEnd, dT)

(* np.zeros_like(t) *)
ZerosLike(t) == [i \in 1..Len(t) |-> Num(0)]

(* k = np.log(2) / half_life *)
ElimRate(halfLife) == Div(Ln2, halfLife)

(* faulty DeltaT: t - t_d without the clamp at 0 *)
DeltaTUnclamped(ti, t_d) == Sub(ti, t_d)

(* delta_t = np.maximum(t - t_d, 0), one grid point *)
DeltaT(ti, t_d) == Maximum(Sub(ti, t_d), Num(0))

(* term = dose * k_absorb / (k_absorb - k) *)
DoseTerm(dose, kAbsorb, k) == Div(Mul(dose, kAbsorb), Sub(kAbsorb, k))

(* faulty ContributionAt: the absorption exponential left out *)
ContributionBolus(delta_t, term, kAbsorb, k) == Mul(term, Exp(Mul(Neg(k), delta_t)))

(* term * (np.exp(-k * delta_t) - np.exp(-k_absorb * delta_t)), one grid point *)
ContributionAt(delta_t, term, kAbsorb, k) ==
    Mul(term, Sub(Exp(Mul(Neg(k), delta_t)), Exp(Mul(Neg(kAbsorb), delta_t))))

(* what one loop iteration adds to conc at grid time ti *)
Contribution(ti, t_d, dose, kAbsorb, k) ==
    ContributionAt(DeltaT(ti, t_d), DoseTerm(dose, kAbsorb, k), kAbsorb, k)

(* faulty Accumulate: conc = contribution *)
Overwrite(conc, contrib) == contrib

(* conc += contribution, elementwise *)
Accumulate(conc, contrib) == [i \in 1..Len(conc) |-> Add(conc[i], contrib[i])]

(* the for loop over zip(dose_times, dose_amounts), doses 1..j processed *)
RECURSIVE DoseLoop(_, _, _, _, _, _)
DoseLoop(j, t, dTimes, dAmounts, kAbsorb, k) ==
    IF j = 0 THEN ZerosLike(t)
    ELSE Accumulate(DoseLoop(j - 1, t, dTimes, dAmounts, kAbsorb, k),
                    [i \in 1..Len(t) |->
                        Contribution(t[i], dTimes[j], dAmounts[j], kAbsorb, k)])

Raised(what) == [status |-> what, t |-> <<>>, conc |-> <<>>]
Pending == Raised("pending")

(* the loop and the return, on the grid t and the rate k *)
Profile(t, dTimes, dAmounts, kAbsorb, k) ==
    [status |-> "ok", t |-> t,
     conc |-> DoseLoop(Min(Len(dTimes), Len(dAmounts)), t, dTimes, dAmounts,
                       kAbsorb, k)]

(* concentration_profile: what the call hands back, [status |-> "ok"] with   *)
(* the pair (t, conc), or the exception that escapes it.  np.arange raises  *)
(* on a zero step; dose * None raises TypeError in the first iteration.     *)
concentration_profile(dTimes, dAmounts, halfLife, kAbsorb, tEnd, dT) ==
    IF dT.num = 0 THEN Raised("ArangeError")
    ELSE IF Min(Len(dTimes), Len(dAmounts)) > 0 /\ kAbsorb = None
         THEN Raised("TypeError")
    ELSE Profile(Arange(GridStop(tEnd, dT), dT), dTimes, dAmounts, kAbsorb,
                 ElimRate(halfLife))

(* ----------------------------------------------------------------------- *)
(* estimate_ka                                                             *)
(* ----------------------------------------------------------------------- *)

(* bracket=[ke + 1e-6, 10]: both ends are per-hour numbers; in the rate     *)
(* unit 1e-6 is 1e-6/ln 2 = 1/693147 and 10 is 10/ln 2 = 14.427            *)
BracketLo(ke) == Add(ke, Rat(1, 693147))
BracketHi == Rat(14427, 1000)

(* the doublings j for which ka = ke * 2^j is looked for *)
MaxDoublings == 3

(* (np.log(ka) - np.log(ke)) / (ka - ke), in hours.  For ka = ke * 2^j the  *)
(* numerator is j ln 2, the rate j, and the quotient is exact.  At the two  *)
(* bracket ends the logarithm is irrational in every unit: there the       *)
(* double-precision value is used, cut to 1e-3 h, for the half-lives of    *)
(* the form (ke = 1: 1.442694 and 0.286788; ke = 1/2: 2.885386 and         *)
(* 0.348296).                                                              *)
PeakTime(ka, ke) ==
    IF ka = BracketLo(ke) THEN
        CASE ke = Num(1)    -> Rat(1442, 1000)
          [] ke = Rat(1, 2) -> Rat(2885, 1000)
    ELSE IF ka = BracketHi THEN
        CASE ke = Num(1)    -> Rat(286, 1000)
          [] ke = Rat(1, 2) -> Rat(348, 1000)
    ELSE LET j == CHOOSE i \in 1..MaxDoublings : ka = Mul(ke, Num(Pow2(i)))
         IN  Div(Num(j), Sub(ka, ke))

(* def f(ka) inside estimate_ka *)
f(ka, ke, tmaxV) ==
    IF ~Less(ke, ka) THEN PosInf
    ELSE Sub(PeakTime(ka, ke), tmaxV)

(* the rates brentq can land on: ke * 2^j inside the bracket *)
RootLattice(ke) ==
    {ka \in {Mul(ke, Num(Pow2(j))) : j \in 1..MaxDoublings} :
        Less(BracketLo(ke), ka) /\ Less(ka, BracketHi)}

(* root_scalar(f, bracket=[a, b], method='brentq'): raises ValueError when  *)
(* f(a) and f(b) have the same sign; otherwise a RootResults with the root *)
(* and its flag `converged` (false when the iteration limit was reached).  *)
root_scalar(ke, tmaxV, converges) ==
    LET fa == f(BracketLo(ke), ke, tmaxV)
        fb == f(BracketHi, ke, tmaxV)
    IN  IF Sign(Mul(fa, fb)) > 0
        THEN [status |-> "ValueError", root |-> None, converged |-> FALSE]
        ELSE [status |-> "ok",
              root |-> CHOOSE ka \in RootLattice(ke) : f(ka, ke, tmaxV) = Num(0),
              converged |-> converges]

(* return result.root if result.converged else None *)
Returned(result) ==
    IF result.status # "ok" THEN [status |-> result.status, value |-> None]
    ELSE [status |-> "ok",
          value |-> IF result.converged THEN result.root ELSE None]

(* estimate_ka(tmax, half_life): [status |-> "ok"] with the value returned, *)
(* or the exception escaping it                                            *)
estimate_ka(tmaxV, halfLife, converges) ==
    Returned(root_scalar(ElimRate(halfLife), tmaxV, converges))

(* ----------------------------------------------------------------------- *)
(* Quick metrics                                                           *)
(* ----------------------------------------------------------------------- *)

(* faulty ArgMaxScan: a later element replaces the best when it is not   *)
(* smaller, so the last of several maxima wins                             *)
RECURSIVE ArgMaxLast(_, _, _)
ArgMaxLast(conc, i, best) ==
    IF i > Len(conc) \/ IsNaN(conc[best]) THEN best
    ELSE IF IsNaN(conc[i]) \/ ~Less(conc[i], conc[best])
         THEN ArgMaxLast(conc, i + 1, i)
         ELSE ArgMaxLast(conc, i + 1, best)

(* conc.argmax(): one pass, a later element replaces the best only when it  *)
(* is strictly greater; the first nan ends the pass and wins               *)
RECURSIVE ArgMaxScan(_, _, _)
ArgMaxScan(conc, i, best) ==
    IF i > Len(conc) \/ IsNaN(conc[best]) THEN best
    ELSE IF IsNaN(conc[i]) \/ Less(conc[best], conc[i])
         THEN ArgMaxScan(conc, i + 1, i)
         ELSE ArgMaxScan(conc, i + 1, best)

ArgMax(conc) == ArgMaxScan(conc, 2, 1)

(* conc.max(): the maximum reduction, nan if any element is nan *)
RECURSIVE MaxScan(_, _, _)
MaxScan(conc, i, m) ==
    IF i > Len(conc) THEN m
    ELSE MaxScan(conc, i + 1, Maximum(m, conc[i]))

Max(conc) == MaxScan(conc, 2, conc[1])

(* np.trapz(conc, t) *)
RECURSIVE TrapzScan(_, _, _)
TrapzScan(conc, t, i) ==
    IF i >= Len(conc) THEN Num(0)
    ELSE Add(Div(Mul(Sub(t[i + 1], t[i]), Add(conc[i + 1], conc[i])), Num(2)),
             TrapzScan(conc, t, i + 1))

Trapz(conc, t) == TrapzScan(conc, t, 1)

(* ----------------------------------------------------------------------- *)
(* State                                                                   *)
(* ----------------------------------------------------------------------- *)

VARIABLES
    half_life,        \* "Half-life (hours)" widget
    use_tmax,         \* "Estimate absorption from Tmax?" checkbox
    tmax,             \* "Tmax (hours)" widget (its default while not shown)
    ka_input,         \* "Absorption rate constant (1/h)" widget (default while not shown)
    k_absorb,         \* the script's k_absorb after the last run
    t_end,            \* "Simulation length (hours)" widget
    dt,               \* "Time step (hours)" widget
    n_doses,          \* "Number of doses" widget
    dose_times,       \* the time_i widgets, rows 1..n_doses
    dose_amounts,     \* the amt_i widgets, rows 1..n_doses
    error_shown,      \* st.error("Could not estimate ka ...") was shown in the last run
    exception,        \* the exception that ended the last run, "none" if it ran through
    result,           \* what concentration_profile handed back in the last run
    peak,             \* conc.max() of the last run
    peak_time,        \* t[conc.argmax()] of the last run
    auc,              \* np.trapz(conc, t) of the last run
    brentq_converges, \* whether scipy's brentq reaches its tolerance within maxiter
    args,             \* direct calls: the arguments
    retA, retB, retAB \* direct calls: results for schedule A, B and A followed by B

formVars == <<half_life, use_tmax, tmax, ka_input, k_absorb, t_end, dt, n_doses,
              dose_times, dose_amounts, error_shown, exception, result, peak,
              peak_time, auc, brentq_converges>>
callVars == <<args, retA, retB, retAB>>
vars == <<formVars, callVars>>

Unbound == [kind |-> "unbound", num |-> 0, den |-> 1]

(* ----------------------------------------------------------------------- *)
(* Widget limits and defaults (st.number_input min_value / value)          *)
(* ----------------------------------------------------------------------- *)

HalfLifeMin == Rat(1, 2)
TmaxMin     == Rat(1, 10)
TmaxDefault == Num(2)
(* min_value=0.1 per hour, 0.1/ln 2 in the rate unit *)
KAbsorbMin  == Rat(144, 1000)
(* value=1.5 per hour is 2.16 in the rate unit; the form starts at the      *)
(* nearest rate of the lattice                                             *)
KAbsorbDefault == Num(2)
TEndMin     == Num(6)
(* min_value=0.01 *)
DtMin       == Rat(1, 100)
NDosesMin   == 1
NDosesMax   == 24
(* value=12.0 + 4*i for row i+1, value=5.0 *)
DoseTimeDefault(row) == Num(12 + 4 * (row - 1))
DoseAmountDefault == Num(5)

(* the most dose rows the model opens *)
MaxDoses == 2

AtLeast(S, lo) == {v \in S : ~Less(v, lo)}

(* values typed into the widgets; number_input enforces min_value *)
HalfLives == AtLeast({Num(1), Num(2)}, HalfLifeMin)
Tmaxes    == AtLeast({Rat(1, 10), Num(2), Num(3)}, TmaxMin)
KAbsorbs  == AtLeast({Rat(1, 2), Num(1), Num(2)}, KAbsorbMin)
TEnds     == AtLeast({Num(6), Num(8)}, TEndMin)
Dts       == AtLeast({Num(2), Num(4)}, DtMin)
(* the dose widgets have no min_value *)
DoseTimes   == {Num(-2), Num(0), Num(4)}
DoseAmounts == {Num(-5), Num(0), Num(5)}

(* ----------------------------------------------------------------------- *)
(* The form: one script run per interaction                                *)
(* ----------------------------------------------------------------------- *)

(* One run of the script body from the sidebar down, on the widget values   *)
(* of the run; pressed is what st.button("Run simulation") returns.  The   *)
(* chart and the formatted text are drawn from result, peak, peak_time and *)
(* auc.  The run ends at the first exception.                              *)
Aborted(exc, ka, err, res) ==
    [exception |-> exc, k_absorb |-> ka, error_shown |-> err, result |-> res,
     peak |-> None, peak_time |-> None, auc |-> None]

(* lines 141-163: the chart and the quick metrics *)
Shown(res, ka, err) ==
    IF res.status # "ok" THEN Aborted(res.status, ka, err, res)
    ELSE IF Len(res.conc) = 0 THEN Aborted("ValueError@161", ka, err, res)
    ELSE [exception |-> "none", k_absorb |-> ka, error_shown |-> err,
          result |-> res,
          peak |-> Max(res.conc),
          peak_time |-> res.t[ArgMax(res.conc)],
          auc |-> Trapz(res.conc, res.t)]

(* lines 117-139: the rest of the sidebar, the dose table and the button *)
AfterSidebar(ka, err, hl, te, d, dTimes, dAmounts, pressed) ==
    IF ~pressed THEN Aborted("none", ka, err, Pending)
    ELSE Shown(concentration_profile(dTimes, dAmounts, hl, ka, te, d), ka, err)

(* lines 106-110: k_absorb = estimate_ka(tmax, half_life) and the message *)
AfterEstimate(est, hl, te, d, dTimes, dAmounts, pressed) ==
    IF est.status # "ok" THEN Aborted("ValueError@106", Unbound, FALSE, Pending)
    ELSE AfterSidebar(est.value, est.value = None, hl, te, d, dTimes, dAmounts,
                      pressed)

Script(hl, ut, tm, ki, te, d, dTimes, dAmounts, converges, pressed) ==
    IF ut
    THEN AfterEstimate(estimate_ka(tm, hl, converges), hl, te, d, dTimes,
                       dAmounts, pressed)
    ELSE AfterSidebar(ki, FALSE, hl, te, d, dTimes, dAmounts, pressed)

(* the new widget values w, then the script run on them *)
Rerun(w, pressed) ==
    \E out \in {Script(w.half_life, w.use_tmax, w.tmax, w.ka_input, w.t_end, w.dt,
                       w.dose_times, w.dose_amounts, brentq_converges, pressed)} :
        /\ half_life' = w.half_life
        /\ use_tmax' = w.use_tmax
        /\ tmax' = w.tmax
        /\ ka_input' = w.ka_input
        /\ t_end' = w.t_end
        /\ dt' = w.dt
        /\ n_doses' = Len(w.dose_times)
        /\ dose_times' = w.dose_times
        /\ dose_amounts' = w.dose_amounts
        /\ k_absorb' = out.k_absorb
        /\ error_shown' = out.error_shown
        /\ exception' = out.exception
        /\ result' = out.result
        /\ peak' = out.peak
        /\ peak_time' = out.peak_time
        /\ auc' = out.auc
        /\ UNCHANGED brentq_converges

Widgets ==
    [half_life |-> half_life, use_tmax |-> use_tmax, tmax |-> tmax,
     ka_input |-> ka_input, t_end |-> t_end, dt |-> dt,
     dose_times |-> dose_times, dose_amounts |-> dose_amounts]

(* the widgets below the sidebar's estimate are on the page only when the   *)
(* last run got past line 106                                              *)
BelowEstimateShown == exception # "ValueError@106"

SetHalfLife(v) ==
    /\ v # half_life
    /\ Rerun([Widgets EXCEPT !.half_life = v], FALSE)

(* ticking or unticking the checkbox swaps which of the two widgets is      *)
(* shown; the one that appears starts at its default                       *)
SetUseTmax ==
    Rerun([Widgets EXCEPT !.use_tmax = ~use_tmax, !.tmax = TmaxDefault,
                          !.ka_input = KAbsorbDefault], FALSE)

SetTmax(v) ==
    /\ use_tmax
    /\ v # tmax
    /\ Rerun([Widgets EXCEPT !.tmax = v], FALSE)

SetKAbsorb(v) ==
    /\ ~use_tmax
    /\ v # ka_input
    /\ Rerun([Widgets EXCEPT !.ka_input = v], FALSE)

SetTEnd(v) ==
    /\ BelowEstimateShown
    /\ v # t_end
    /\ Rerun([Widgets EXCEPT !.t_end = v], FALSE)

SetDt(v) ==
    /\ BelowEstimateShown
    /\ v # dt
    /\ Rerun([Widgets EXCEPT !.dt = v], FALSE)

(* rows that disappear lose their values; new rows start at the defaults *)
SetNDoses(n) ==
    /\ BelowEstimateShown
    /\ n # n_doses
    /\ Rerun([Widgets EXCEPT
                !.dose_times = [i \in 1..n |->
                    IF i <= n_doses THEN dose_times[i] ELSE DoseTimeDefault(i)],
                !.dose_amounts = [i \in 1..n |->
                    IF i <= n_doses THEN dose_amounts[i] ELSE DoseAmountDefault]],
             FALSE)

SetDoseTime(i, v) ==
    /\ BelowEstimateShown
    /\ v # dose_times[i]
    /\ Rerun([Widgets EXCEPT !.dose_times[i] = v], FALSE)

SetDoseAmount(i, v) ==
    /\ BelowEstimateShown
    /\ v # dose_amounts[i]
    /\ Rerun([Widgets EXCEPT !.dose_amounts[i] = v], FALSE)

(* if st.button("Run simulation"): *)
RunSimulation ==
    /\ BelowEstimateShown
    /\ Rerun(Widgets, TRUE)

NoArgs == [A |-> <<>>, B |-> <<>>, half_life |-> Num(1), k_absorb |-> Num(2),
           t_end |-> Num(6), dt |-> Num(2)]

(* the form as first drawn, on values of the sets above; one dose row *)
Init ==
    /\ half_life = Num(1)
    /\ use_tmax = FALSE
    /\ tmax = TmaxDefault
    /\ ka_input = KAbsorbDefault
    /\ k_absorb = KAbsorbDefault
    /\ t_end = Num(6)
    /\ dt = Num(2)
    /\ n_doses = NDosesMin
    /\ dose_times = [i \in 1..NDosesMin |-> DoseTimeDefault(i)]
    /\ dose_amounts = [i \in 1..NDosesMin |-> DoseAmountDefault]
    /\ error_shown = FALSE
    /\ exception = "none"
    /\ result = Pending
    /\ peak = None /\ peak_time = None /\ auc = None
    /\ brentq_converges \in BOOLEAN
    /\ args = NoArgs
    /\ retA = Pending /\ retB = Pending /\ retAB = Pending

Next ==
    \/ \E v \in HalfLives : SetHalfLife(v) /\ UNCHANGED callVars
    \/ SetUseTmax /\ UNCHANGED callVars
    \/ \E v \in Tmaxes : SetTmax(v) /\ UNCHANGED callVars
    \/ \E v \in KAbsorbs : SetKAbsorb(v) /\ UNCHANGED callVars
    \/ \E v \in TEnds : SetTEnd(v) /\ UNCHANGED callVars
    \/ \E v \in Dts : SetDt(v) /\ UNCHANGED callVars
    \/ \E n \in NDosesMin..Min(NDosesMax, MaxDoses) : SetNDoses(n) /\ UNCHANGED callVars
    \/ \E i \in 1..n_doses, v \in DoseTimes : SetDoseTime(i, v) /\ UNCHANGED callVars
    \/ \E i \in 1..n_doses, v \in DoseAmounts : SetDoseAmount(i, v) /\ UNCHANGED callVars
    \/ RunSimulation /\ UNCHANGED callVars

Spec == Init /\ [][Next]_vars

(* ----------------------------------------------------------------------- *)
(* Direct calls of concentration_profile, on any arguments                 *)
(* ----------------------------------------------------------------------- *)

(* the longest schedule A or B *)
MaxSchedule == 1

ArgHalfLives   == {Num(-1), Num(0), Rat(1, 2), Num(1)}
ArgKAbsorbs    == {Num(1), Num(2), Num(3)}
ArgTEnds       == {Num(-1), Num(0), Num(3)}
ArgDts         == {Num(-1), Num(0), Num(1), Num(2)}
ArgDoseTimes   == {Num(0), Num(2)}
ArgDoseAmounts == {Num(1), Num(3)}

(* a schedule is a sequence of doses <<t_d, dose>> *)
Schedules == UNION {[1..n -> ArgDoseTimes \X ArgDoseAmounts] : n \in 0..MaxSchedule}

TimesOf(sched)   == [i \in 1..Len(sched) |-> sched[i][1]]
AmountsOf(sched) == [i \in 1..Len(sched) |-> sched[i][2]]

(* concentration_profile(times, amounts, half_life, k_absorb, t_end, dt) *)
Call(sched) ==
    concentration_profile(TimesOf(sched), AmountsOf(sched), args.half_life,
                          args.k_absorb, args.t_end, args.dt)

CallA ==
    /\ retA = Pending
    /\ retA' = Call(args.A)
    /\ UNCHANGED <<args, retB, retAB, formVars>>

CallB ==
    /\ retB = Pending
    /\ retB' = Call(args.B)
    /\ UNCHANGED <<args, retA, retAB, formVars>>

CallAB ==
    /\ retAB = Pending
    /\ retAB' = Call(args.A \o args.B)
    /\ UNCHANGED <<args, retA, retB, formVars>>

InitProfile ==
    /\ args \in [A : Schedules, B : Schedules, half_life : ArgHalfLives,
                 k_absorb : ArgKAbsorbs, t_end : ArgTEnds, dt : ArgDts]
    /\ retA = Pending /\ retB = Pending /\ retAB = Pending
    /\ half_life = Num(1)
    /\ use_tmax = FALSE
    /\ tmax = TmaxDefault
    /\ ka_input = KAbsorbDefault
    /\ k_absorb = KAbsorbDefault
    /\ t_end = Num(6)
    /\ dt = Num(2)
    /\ n_doses = NDosesMin
    /\ dose_times = [i \in 1..NDosesMin |-> DoseTimeDefault(i)]
    /\ dose_amounts = [i \in 1..NDosesMin |-> DoseAmountDefault]
    /\ error_shown = FALSE
    /\ exception = "none"
    /\ result = Pending
    /\ peak = None /\ peak_time = None /\ auc = None
    /\ brentq_converges = TRUE

NextProfile == CallA \/ CallB \/ CallAB

SpecProfile == InitProfile /\ [][NextProfile]_vars

(* ----------------------------------------------------------------------- *)
(* Properties of concentration_profile (SpecProfile)                       *)
(* ----------------------------------------------------------------------- *)

(* the three calls: the schedule passed and what came back *)
Calls == {[sched |-> args.A, ret |-> retA],
          [sched |-> args.B, ret |-> retB],
          [sched |-> args.A \o args.B, ret |-> retAB]}

Positive(x) == Less(Num(0), x)
ArgRate == ElimRate(args.half_life)

(* KineticParameters of the data model: half_life > 0 and ka # k *)
KineticsValid == Positive(args.half_life) /\ args.k_absorb # ArgRate
WindowValid == Positive(args.t_end) /\ Positive(args.dt)

(* the doses of sched given strictly after grid time ti *)
LaterDoses(sched, ti) == {j \in 1..Len(sched) : Less(ti, sched[j][1])}

(* C1: with valid kinetics, a dose contributes exactly 0 at every grid time *)
(* before its own time, and the series of a call is exactly 0 at every      *)
(* grid time that lies before all of its doses (so a single-dose series is *)
(* 0 before the dose).                                                     *)
C1_ZeroBeforeDose ==
    \A c \in Calls :
        (c.ret.status = "ok" /\ KineticsValid) =>
            \A i \in 1..Len(c.ret.t) :
                /\ \A j \in LaterDoses(c.sched, c.ret.t[i]) :
                      Contribution(c.ret.t[i], c.sched[j][1], c.sched[j][2],
                                   args.k_absorb, ArgRate) = Num(0)
                /\ (Len(c.sched) > 0
                    /\ LaterDoses(c.sched, c.ret.t[i]) = 1..Len(c.sched))
                      => c.ret.conc[i] = Num(0)

(* a single-dose call with grid points before the dose (all 0) and a        *)
(* non-zero amount after it                                                *)
C1_Witness ==
    /\ retA.status = "ok" /\ KineticsValid /\ Len(args.A) = 1
    /\ \E i \in 1..Len(retA.t) :
          Less(retA.t[i], args.A[1][1]) /\ retA.conc[i] = Num(0)
    /\ \E i \in 1..Len(retA.t) : retA.conc[i] # Num(0)

Invalid ==
    \/ ~Positive(args.half_life)
    \/ ~Positive(args.dt)
    \/ ~Positive(args.t_end)
    \/ args.k_absorb = ArgRate

(* C3: on an invalid parameter (half_life <= 0, step <= 0, duration <= 0,   *)
(* or ka = k) the call ends in an error and hands back no series.          *)
C3_RejectsInvalid ==
    \A c \in Calls : (c.ret # Pending /\ Invalid) => c.ret.status # "ok"

Floor(x) == x.num \div x.den

(* t is 0, dt, 2 dt, ... with n points, and conc has one amount per point *)
GridIs(ret, n) ==
    /\ Len(ret.t) = n
    /\ Len(ret.conc) = n
    /\ \A i \in 1..n : ret.t[i] = Mul(Num(i - 1), args.dt)

(* C4 as stated: for duration > 0 and step > 0 the grid is i*step for       *)
(* i = 0 .. floor(duration/step), one amount per grid point.               *)
C4_GridFloor ==
    \A c \in Calls :
        (c.ret.status = "ok" /\ WindowValid) =>
            GridIs(c.ret, Floor(Div(args.t_end, args.dt)) + 1)

(* C4 amended: for duration > 0 and step > 0 the grid is i*step for         *)
(* i = 0 .. ceil(duration/step), one amount per grid point: that is        *)
(* floor(duration/step) + 1 points when step divides duration and one more *)
(* point otherwise.                                                        *)
C4_GridCeil ==
    \A c \in Calls :
        (c.ret.status = "ok" /\ WindowValid) =>
            /\ GridIs(c.ret, Ceil(Div(args.t_end, args.dt)) + 1)
            /\ Len(c.ret.t) = Floor(Div(args.t_end, args.dt))
                              + (IF Div(args.t_end, args.dt).den = 1 THEN 1 ELSE 2)

(* a grid whose step does not divide the duration *)
C4_Witness ==
    /\ retA.status = "ok" /\ WindowValid
    /\ Div(args.t_end, args.dt).den # 1
    /\ Len(retA.t) = Floor(Div(args.t_end, args.dt)) + 2

(* C5: for duration > 0 and step > 0 the grid starts at 0 and its last      *)
(* point is >= duration.                                                   *)
C5_GridCoversWindow ==
    \A c \in Calls :
        (c.ret.status = "ok" /\ WindowValid) =>
            /\ Len(c.ret.t) >= 1
            /\ c.ret.t[1] = Num(0)
            /\ ~Less(c.ret.t[Len(c.ret.t)], args.t_end)

(* a grid whose step does not divide the duration: the last point lies      *)
(* beyond the duration                                                     *)
C5_Witness ==
    /\ retAB.status = "ok" /\ WindowValid
    /\ Div(args.t_end, args.dt).den # 1
    /\ Less(args.t_end, retAB.t[Len(retAB.t)])

AllFinite(ret) == \A i \in 1..Len(ret.conc) : IsFin(ret.conc[i])

(* C6: superposition.  The series of schedule A followed by B is, at every  *)
(* grid point, the sum of the series of A alone and of B alone.            *)
C6_Superposition ==
    (retA.status = "ok" /\ retB.status = "ok" /\ retAB.status = "ok"
     /\ AllFinite(retA) /\ AllFinite(retB)) =>
        /\ retAB.t = retA.t /\ retAB.t = retB.t
        /\ Len(retAB.conc) = Len(retA.conc)
        /\ \A i \in 1..Len(retAB.conc) :
              retAB.conc[i] = Add(retA.conc[i], retB.conc[i])

(* two non-empty schedules that both contribute at some grid point *)
C6_Witness ==
    /\ retA.status = "ok" /\ retB.status = "ok" /\ retAB.status = "ok"
    /\ AllFinite(retA) /\ AllFinite(retB)
    /\ Len(args.A) > 0 /\ Len(args.B) > 0
    /\ \E i \in 1..Len(retAB.conc) :
          /\ retA.conc[i] # Num(0) /\ retB.conc[i] # Num(0)
          /\ retAB.conc[i] = Add(retA.conc[i], retB.conc[i])

(* a call of one dose given at t_d = 0, with valid parameters *)
SingleDoseAtZero(c) ==
    /\ c.ret.status = "ok" /\ KineticsValid /\ WindowValid
    /\ Len(c.sched) = 1 /\ c.sched[1][1] = Num(0)

NoSolution(tmaxV, halfLife) ==
    Sign(Mul(f(BracketLo(ElimRate(halfLife)), ElimRate(halfLife), tmaxV),
             f(BracketHi, ElimRate(halfLife), tmaxV))) > 0

(* C2: for a Tmax/half_life pair without a solution estimate_ka returns     *)
(* None: no exception escapes it and it returns no nan.                    *)
C2_FailsCleanly ==
    (use_tmax /\ NoSolution(tmax, half_life)) =>
        (exception # "ValueError@106" /\ k_absorb = None)

(* the quick metrics were written in the last run *)
MetricsShown == result.status = "ok" /\ exception = "none"

NaNAt(conc) == {i \in 1..Len(conc) : IsNaN(conc[i])}

(* idx is the first index at which conc has the value v *)
FirstAt(conc, idx, v) ==
    /\ idx \in 1..Len(conc)
    /\ conc[idx] = v
    /\ \A j \in 1..(idx - 1) : conc[j] # v

(* C8: the peak amount is the maximum of the series and the peak time is    *)
(* the grid time of its first occurrence.  (A series holding a nan has no  *)
(* maximum: numpy then reports nan, at the first nan.)                     *)
C8_PeakIsFirstMaximum ==
    MetricsShown =>
        IF NaNAt(result.conc) = {}
        THEN /\ \A i \in 1..Len(result.conc) : ~Less(peak, result.conc[i])
             /\ \E idx \in 1..Len(result.conc) :
                   FirstAt(result.conc, idx, peak) /\ peak_time = result.t[idx]
        ELSE /\ IsNaN(peak)
             /\ \E idx \in NaNAt(result.conc) :
                   FirstAt(result.conc, idx, NaN) /\ peak_time = result.t[idx]

(* a series whose maximum occurs at several grid points, and one whose      *)
(* maximum is not at the first grid point                                  *)
C8_Witness ==
    /\ MetricsShown /\ NaNAt(result.conc) = {}
    /\ \E i, j \in 1..Len(result.conc) :
          /\ i < j
          /\ result.conc[i] = peak /\ result.conc[j] = peak
          /\ FirstAt(result.conc, i, peak)
          /\ peak_time = result.t[i]

(* C9: every dose handed to concentration_profile has time >= 0 and         *)
(* amount > 0.                                                             *)
C9_DosesValid ==
    result # Pending =>
        \A i \in 1..n_doses :
            /\ ~Less(dose_times[i], Num(0))
            /\ Less(Num(0), dose_amounts[i])

(* C10: when the estimate is None, the message is shown and the run ends    *)
(* without concentration_profile being called and without an exception.    *)
C10_NoRunWithoutEstimate ==
    (use_tmax /\ k_absorb = None) =>
        /\ error_shown
        /\ result = Pending
        /\ exception = "none"

====
